---- MODULE Spec2Model ----
(***************************************************************************)
(* Sona: audio source -> transcript.  The model covers the transcription   *)
(* pipeline (pkg/transcriber), the AssemblyAI client (pkg/assemblyai), the *)
(* yt-dlp downloader (pkg/youtube) and the legacy root-package program     *)
(* (assemblyai.go, youtube.go and its transcribe command), plus the        *)
(* filename sanitizer as a pure operator on character sequences.           *)
(***************************************************************************)
EXTENDS Integers, Sequences, FiniteSets, TLC

(***************************************************************************)
(* Program constants                                                       *)
(***************************************************************************)
\* pkg/assemblyai/client.go:177  const maxAttempts = 100
maxAttempts == 100
\* pkg/transcriber/transcriber.go:649  const maxLength = 40
maxLength == 40
\* net/http StatusOK, the status client.go:119, 162 and 194 compare with
StatusOK == 200

(***************************************************************************)
(* Bounds of the model                                                     *)
(***************************************************************************)
\* cap on the fetch counter of the legacy poll loop, which has no bound: the
\* counter stays at MaxFetch once it got there, the loop goes on
MaxFetch == 102
\* number of runs in a row on the same source and destination
MaxRuns == 2
\* sanitizer inputs are  head \o "a"^pad \o tail  with head and tail over
\* Alphabet and pad in 0..MaxShort or within MaxNear of maxLength
MaxHead == 1
MaxTail == 2
MaxShort == 1
MaxNear == 1

(***************************************************************************)
(* Strings are sequences of one-character strings (ASCII, so bytes and     *)
(* characters coincide, as len() and slicing in the code count bytes).     *)
(***************************************************************************)
TAB == "\t"
\* the character class of the regexp [\\/:*?"<>|]
InvalidChars == {"\\", "/", ":", "*", "?", "\"", "<", ">", "|"}
\* unicode.IsSpace restricted to ASCII, as used by strings.TrimSpace
WhiteSpace == {" ", TAB, "\n", "\r"}
\* characters sanitizer inputs are built from
Alphabet == {"a", "A", "-", " ", "_", "/", TAB}

\* regexp.ReplaceAllString(name, "-") for the invalid-character class
ReplaceInvalid(s) == [i \in 1..Len(s) |-> IF s[i] \in InvalidChars THEN "-" ELSE s[i]]

\* strings.ReplaceAll(name, old, "-") for a one-character old
ReplaceChar(s, old) == [i \in 1..Len(s) |-> IF s[i] = old THEN "-" ELSE s[i]]

\* strings.Contains(name, "--")
ContainsDoubleHyphen(s) == \E i \in 1..(Len(s) - 1) : s[i] = "-" /\ s[i + 1] = "-"

\* strings.ReplaceAll(name, "--", "-"): non-overlapping matches, left to right
RECURSIVE ReplaceDoubleHyphen(_)
ReplaceDoubleHyphen(s) ==
    IF Len(s) < 2 THEN s
    ELSE IF s[1] = "-" /\ s[2] = "-"
         THEN <<"-">> \o ReplaceDoubleHyphen(SubSeq(s, 3, Len(s)))
         ELSE <<s[1]>> \o ReplaceDoubleHyphen(Tail(s))

\* for strings.Contains(name, "--") { name = strings.ReplaceAll(name, "--", "-") }
RECURSIVE CollapseHyphens(_)
CollapseHyphens(s) ==
    IF ContainsDoubleHyphen(s) THEN CollapseHyphens(ReplaceDoubleHyphen(s)) ELSE s

\* strings.Trim / strings.TrimSpace: drop leading and trailing characters of cut
RECURSIVE TrimLeft(_, _)
TrimLeft(s, cut) ==
    IF s # <<>> /\ s[1] \in cut THEN TrimLeft(Tail(s), cut) ELSE s

RECURSIVE TrimRight(_, _)
TrimRight(s, cut) ==
    IF s # <<>> /\ s[Len(s)] \in cut THEN TrimRight(SubSeq(s, 1, Len(s) - 1), cut) ELSE s

Trim(s, cut) == TrimRight(TrimLeft(s, cut), cut)

\* strings.ToLower on the alphabet
ToLower(s) == [i \in 1..Len(s) |-> IF s[i] = "A" THEN "a" ELSE s[i]]

\* name[:maxLength] when len(name) > maxLength
Truncate(s) == IF Len(s) > maxLength THEN SubSeq(s, 1, maxLength) ELSE s

Transcript == <<"t", "r", "a", "n", "s", "c", "r", "i", "p", "t">>

\* sanitizeFilename with the invalid-character replacement left out
sanitizeFilename_keepInvalid(name) ==
    LET s2 == ReplaceChar(ReplaceChar(name, " "), "_")
        s3 == CollapseHyphens(s2)
        s4 == Trim(Trim(s3, WhiteSpace), {"-"})
        s6 == Truncate(ToLower(s4))
    IN  IF s6 = <<>> THEN Transcript ELSE s6

sanitizeFilename(name) ==
    LET s1 == ReplaceInvalid(name)
        s2 == ReplaceChar(ReplaceChar(s1, " "), "_")
        s3 == CollapseHyphens(s2)
        s4 == Trim(Trim(s3, WhiteSpace), {"-"})
        s5 == ToLower(s4)
        s6 == Truncate(s5)
    IN  IF s6 = <<>> THEN Transcript ELSE s6

\* sequences over S of length at most n
SeqUpTo(S, n) == UNION {[1..k -> S] : k \in 0..n}
Pad(n) == [i \in 1..n |-> "a"]
\* lengths of the run of letters: short ones and those around maxLength
PadLens == (0..MaxShort) \cup ((maxLength - MaxNear)..(maxLength + MaxNear))

(***************************************************************************)
(* State                                                                   *)
(***************************************************************************)
VARIABLES
    entry,       \* how the process was started: "transcribe" or "interactive"
    exitCode,    \* exit status of the process, -1 while it runs
    impl,        \* which program runs: "pkg" (cmd/sona with pkg/...) or "root" (legacy package main)
    kind,        \* classification of the source: "youtube" or "local"
    hasKey,      \* an AssemblyAI API key is configured
    srcExists,   \* the source names a local path that exists (never for a URL)
    statErr,     \* error of os.Stat on the local source path: "nil", "ENOENT" or "other"
    runs,        \* number of the run, counted from 1
    pc,          \* position of the run
    result,      \* what the run returned: "none", "ok", an error tag, or "exit"
    errMsg,      \* message carried by the returned error
    temps,       \* temporary files and directories of the run that exist now
    dlAttempts,  \* downloader subprocess invocations
    convAttempts,\* ffmpeg invocations
    swallowed,   \* errors the run has met and gone on after
    hung,        \* what did not finish by itself in the run: "download" or nothing
    uploads,     \* POST /v2/upload requests issued
    submits,     \* POST /v2/transcript requests issued
    fetches,     \* GET /v2/transcript/{id} requests issued
    attempts,    \* loop counter of Client.pollTranscription
    uploadRes,   \* "none", "ok" or "fail"
    submitRes,   \* "none", "ok" or "fail"
    uploadResp,  \* what the HTTP client returned for the upload request
    submitResp,  \* what the HTTP client returned for the submit request
    pollResp,    \* how the last status fetch ended: "none", "ok", "neterr", "non200", "baddecode"
    sentURL,     \* audio_url of the submit request
    fetchedID,   \* id in the URL of the last status fetch
    uploadURL,   \* upload handle decoded from the upload response
    jobID,       \* id decoded from the submit response
    lastResp,    \* last decoded polling response
    terminals,   \* number of terminal statuses observed
    onlyUnrec,   \* every fetch so far succeeded and reported an unrecognized status
    transcript,  \* text returned by transcribe
    outFile,     \* content of the destination file
    outFile0,    \* content of the destination file before the run
    writes,      \* writes of the destination file
    stagesRun,   \* stages the run has entered, in order
    failedStage, \* stage in which a step of the run failed, or "none"
    sanPc, sanIn, sanOut1, sanOut2,  \* sanitizer harness
    pathPc,      \* output-path harness: "off", "in", "classified", "one", "two"
    source,      \* the source argument of the command
    vid,         \* the video identifier the source was built around (<<>> if none)
    form,        \* where the source carries it: "v", "short", "none"
    sourceType,  \* "youtube" or "local", from the classification
    outputPath,  \* the --output flag (package variable outputPath), <<>> if not given
    timestamp,   \* time.Now().Format("20060102") of the run
    titleLookup, \* saveTranscript is the variant that asks youtube.GetVideoInfo for the title
    meta1, meta2,\* what the title lookup of the first and of the second run returns
    dirExists,   \* the default output directory exists
    finalOutputPath1, finalOutputPath2, \* finalOutputPath of the first and second run
    cPc,         \* concurrent-runs harness: position of each process
    cKind,       \* "youtube" or "local", per process
    cOut,        \* the --output flag of each process, as path elements
    cTempDir,    \* tempDir of each process (<<>> if none)
    cAudio,      \* the audio file each process hands to transcribeAudio (<<>> if none)
    fs,          \* temporary directories and audio files that exist
    apiPc,       \* exported-functions harness: "off", "idle", "save" or "called"
    calls,       \* calls of the exported functions made so far
    argOut,      \* the outputPath argument of the last Process call
    dest,        \* finalOutputPath of the last Process call
    keyPc,       \* API-key harness: "off", "in", "stored" or "got"
    apiKey,      \* the key k the user supplies
    route,       \* how it is supplied: "save", "set" or "env"
    viperKey,    \* the value of assemblyai.api_key in the configuration
    gotKey       \* what GetAPIKeyNoExit returned

pipeVars == <<entry, exitCode, impl, kind, hasKey, srcExists, statErr, runs, pc, result, errMsg, temps, dlAttempts,
              convAttempts, swallowed, hung, uploads, submits, fetches, attempts, uploadRes, submitRes,
              uploadResp, submitResp, pollResp, sentURL, fetchedID, uploadURL, jobID, lastResp, terminals, onlyUnrec, transcript, outFile,
              outFile0, writes, stagesRun, failedStage>>
sanVars == <<sanPc, sanIn, sanOut1, sanOut2>>
pathVars == <<pathPc, source, vid, form, sourceType, outputPath, timestamp, titleLookup,
              meta1, meta2, dirExists, finalOutputPath1, finalOutputPath2>>
concVars == <<cPc, cKind, cOut, cTempDir, cAudio, fs>>
apiVars == <<apiPc, calls, argOut, dest>>
keyVars == <<keyPc, apiKey, route, viperKey, gotKey>>
harnessVars == <<concVars, apiVars, keyVars>>
vars == <<pipeVars, sanVars, pathVars, harnessVars>>

\* "pkg" is pkg/transcriber with the yt-dlp downloader that falls back, "root"
\* the legacy package main, "lookup" the transcriber whose processYouTubeVideo
\* asks for the video's metadata, with the downloader that runs yt-dlp once
\* under a deadline
Impls == {"pkg", "root", "lookup"}
Kinds == {"youtube", "local"}
NoFile == "<absent>"
Texts == {"hello world", ""}
Msgs == {"bad audio", "quota"}
Handles == {"", "https://cdn.assemblyai.com/upload/u1"}
JobIDs == {"", "j1"}
\* status strings the service may report
Statuses == {"queued", "processing", "completed", "error", "", "paused"}
NoResp == [status |-> "<none>", text |-> "", error |-> ""]
PollResponses ==
    [status : Statuses \ {"completed", "error"}, text : {""}, error : {""}]
      \cup [status : {"completed"}, text : Texts, error : {""}]
      \cup [status : {"error"}, text : Texts, error : Msgs]
\* HTTP status codes the service may answer with
StatusCodes == {200, 201, 500}
\* what HTTPClient.Do returns: a transport error, or a response with a status
\* code and a body that decodes as the expected JSON or does not
NoHTTP == [err |-> FALSE, code |-> 0, decodes |-> FALSE]
HTTPOutcomes ==
    {[err |-> TRUE, code |-> 0, decodes |-> FALSE]}
      \cup [err : {FALSE}, code : StatusCodes, decodes : BOOLEAN]

\* how upload, submit and poll treat what HTTPClient.Do returned: err != nil,
\* resp.StatusCode != http.StatusOK, a Decode error, or success
HTTPResult(o) ==
    IF o.err THEN "neterr"
    ELSE IF o.code # StatusOK THEN "non200"
    ELSE IF ~o.decodes THEN "baddecode"
    ELSE "ok"

inputVars == <<entry, impl, kind, hasKey, srcExists, statErr, runs, outFile0>>

\* what os.Stat can return: nil or a permission error for a path that
\* exists; ENOENT, or another error (ENOTDIR when a component of the path is
\* a regular file, ENAMETOOLONG) for a path that does not
StatErrors(exists) == IF exists THEN {"nil", "other"} ELSE {"ENOENT", "other"}

\* os.IsNotExist(err)
IsNotExist(e) == e = "ENOENT"

\* the local source can be opened and read
SourceReadable == srcExists /\ statErr = "nil"

\* os.Open(audioPath) in uploadAudioFile succeeds: the legacy program uploads
\* the local source itself, everything else a file the run has just produced
AudioOpens == (impl = "root" /\ kind = "local") => SourceReadable
acqVars == <<dlAttempts, convAttempts, swallowed, hung>>
clientVars == <<uploads, submits, fetches, attempts, uploadRes, submitRes, uploadResp,
                submitResp, pollResp, sentURL, fetchedID, uploadURL,
                jobID, lastResp, terminals, onlyUnrec, transcript>>
outVars == <<outFile, writes>>

\* the four stages of a run, in pipeline order
StageOrder == <<"acquisition", "normalization", "transcription", "write">>

\* the stage a position of the run belongs to: download and the existence
\* check of a local path are acquisition (with the temporary directory the
\* legacy download goes to), the temporary directory and ffmpeg of
\* processLocalAudio are normalization, transcribeAudio with the client's
\* upload, submit and poll is transcription, saveTranscript is the write
StageOfPc(p) ==
    CASE p \in {"download", "download_fallback", "stat", "root_mktemp", "root_download",
                "root_download_fallback", "lookup_info", "lookup_mktemp",
                "lookup_download"} -> "acquisition"
      [] p \in {"mktemp", "convert"} -> "normalization"
      [] p \in {"transcribe", "upload", "submit", "poll"} -> "transcription"
      [] p = "save" -> "write"
      [] OTHER -> "none"

\* stagesRun once stage s has been entered
Enter(s) ==
    IF s = "none" \/ (\E i \in 1..Len(stagesRun) : stagesRun[i] = s)
    THEN stagesRun
    ELSE Append(stagesRun, s)

\* a step of the run at position pc executes: its stage is entered
Ran == stagesRun' = Enter(StageOfPc(pc))

(***************************************************************************)
(* Initial state: one process invocation on one source                     *)
(***************************************************************************)
InitRun ==
    /\ exitCode = -1
    /\ impl \in Impls
    /\ kind \in (IF impl = "lookup" THEN {"youtube"} ELSE Kinds)
    /\ hasKey \in BOOLEAN
    /\ srcExists \in (IF kind = "local" THEN BOOLEAN ELSE {FALSE})
    /\ statErr \in (IF kind = "local" THEN StatErrors(srcExists) ELSE {"nil"})
    /\ runs = 1
    /\ pc = "start"
    /\ result = "none"
    /\ errMsg = ""
    /\ temps = {}
    /\ dlAttempts = 0 /\ convAttempts = 0
    /\ swallowed = {} /\ hung = {}
    /\ uploads = 0 /\ submits = 0 /\ fetches = 0 /\ attempts = 0
    /\ uploadRes = "none" /\ submitRes = "none"
    /\ uploadResp = NoHTTP /\ submitResp = NoHTTP /\ pollResp = "none"
    /\ sentURL = "<none>" /\ fetchedID = "<none>"
    /\ uploadURL = "" /\ jobID = ""
    /\ lastResp = NoResp
    /\ terminals = 0
    /\ onlyUnrec = TRUE
    /\ transcript = ""
    /\ outFile0 \in {NoFile, "old transcript"}
    /\ outFile = outFile0
    /\ writes = 0
    /\ stagesRun = <<>>
    /\ failedStage = "none"

\* the process was started as `sona transcribe <source>`
InitPipe == InitRun /\ entry = "transcribe"

SanIdle == sanPc = "off" /\ sanIn = <<>> /\ sanOut1 = <<>> /\ sanOut2 = <<>>

PathIdle ==
    /\ pathPc = "off" /\ source = <<>> /\ vid = <<>> /\ form = "none"
    /\ sourceType = "none" /\ outputPath = <<>> /\ timestamp = <<>>
    /\ titleLookup = FALSE /\ meta1 = <<>> /\ meta2 = <<>> /\ dirExists = FALSE
    /\ finalOutputPath1 = <<>> /\ finalOutputPath2 = <<>>

\* number of processes running at the same time
NProcs == 2
Procs == 1..NProcs

ConcIdle ==
    /\ cPc = [p \in Procs |-> "off"] /\ cKind = [p \in Procs |-> "local"]
    /\ cOut = [p \in Procs |-> <<>>] /\ cTempDir = [p \in Procs |-> <<>>]
    /\ cAudio = [p \in Procs |-> <<>>] /\ fs = {}

ApiIdle == apiPc = "off" /\ calls = 0 /\ argOut = <<>> /\ dest = <<>>

\* a configuration value: the string text itself, or, when sealed, the
\* base64 string Encrypt made of text
Plain(text) == [sealed |-> FALSE, text |-> text]
Sealed(text) == [sealed |-> TRUE, text |-> text]

KeyIdle ==
    /\ keyPc = "off" /\ apiKey = <<>> /\ route = "none"
    /\ viperKey = Plain(<<>>) /\ gotKey = <<>>

HarnessIdle == ConcIdle /\ ApiIdle /\ KeyIdle

Init == InitPipe /\ SanIdle /\ PathIdle /\ HarnessIdle

(***************************************************************************)
(* Returning from the run                                                  *)
(***************************************************************************)
\* the run registered `defer os.RemoveAll(tempDir)`: pkg processLocalAudio, the
\* legacy processYouTubeVideo and the processYouTubeVideo with the metadata
\* lookup do, pkg processYouTubeVideo does not
HasDeferredRemoveAll ==
    \/ (impl = "pkg" /\ kind = "local")
    \/ (impl \in {"root", "lookup"} /\ kind = "youtube")

\* what is left of the temporaries t once the deferred calls have run
Deferred(t) == IF HasDeferredRemoveAll THEN {} ELSE t

\* return err (or nil, "ok") from processYouTubeVideo / processLocalAudio
Return(r, m, t) ==
    /\ pc' = "returned"
    /\ result' = r
    /\ errMsg' = m
    /\ failedStage' = IF r = "ok" THEN failedStage ELSE StageOfPc(pc)
    /\ temps' = Deferred(t)

\* os.Exit(1): the process ends, deferred calls do not run
Exit ==
    /\ pc' = "exited"
    /\ result' = "exit"
    /\ UNCHANGED <<errMsg, failedStage, temps>>

\* hung once the subprocess `what` has ended as o
Hangs(o, what) == IF o = "hang" THEN hung \cup {what} ELSE hung

(***************************************************************************)
(* pkg/transcriber: the transcribe command and the two pipelines           *)
(***************************************************************************)
\* TranscribeCmd.Run: dependency check, then dispatch on the classification
TranscribeCmdRun(depsOK) ==
    /\ pc = "start" /\ impl = "pkg" /\ entry = "transcribe"
    /\ Ran
    /\ IF ~depsOK
       THEN Exit
       ELSE /\ pc' = IF kind = "youtube" THEN "download" ELSE "stat"
            /\ UNCHANGED <<result, errMsg, failedStage, temps>>
    /\ UNCHANGED <<inputVars, exitCode, acqVars, clientVars, outVars, sanVars, pathVars, harnessVars>>

\* youtube.DownloadAudio, first yt-dlp invocation
DownloadAudio(o) ==
    /\ pc = "download" /\ impl = "pkg"
    /\ Ran
    /\ CASE o = "nobinary" -> /\ Return("download", "yt-dlp not found", temps)
                                /\ UNCHANGED dlAttempts
         [] o = "fail" -> /\ dlAttempts' = dlAttempts + 1
                          /\ pc' = "download_fallback"
                          /\ UNCHANGED <<result, errMsg, failedStage, temps>>
         [] o = "hang" -> /\ dlAttempts' = dlAttempts + 1
                          /\ pc' = "blocked"
                          /\ UNCHANGED <<result, errMsg, failedStage, temps>>
         [] o = "ok" -> /\ dlAttempts' = dlAttempts + 1
                        /\ temps' = temps \cup {"audioFile"}
                        /\ pc' = "transcribe"
                        /\ UNCHANGED <<result, errMsg, failedStage>>
    /\ hung' = Hangs(o, "download")
    /\ UNCHANGED <<inputVars, exitCode, convAttempts, swallowed, clientVars, outVars, sanVars, pathVars, harnessVars>>

\* a fallback that is run again after it failed
DownloadAudioFallback_retry(o) ==
    /\ pc = "download_fallback" /\ impl = "pkg"
    /\ Ran
    /\ dlAttempts < 4
    /\ dlAttempts' = dlAttempts + 1
    /\ CASE o = "ok" -> /\ temps' = temps \cup {"audioFile"}
                        /\ pc' = "transcribe"
                        /\ swallowed' = swallowed \cup {"download"}
         [] o = "hang" -> pc' = "blocked" /\ UNCHANGED <<temps, swallowed>>
         [] o = "fail" -> UNCHANGED <<pc, temps, swallowed>>
    /\ hung' = Hangs(o, "download")
    /\ UNCHANGED <<result, errMsg, failedStage>>
    /\ UNCHANGED <<inputVars, exitCode, convAttempts, clientVars, outVars, sanVars, pathVars, harnessVars>>

\* youtube.DownloadAudio, second yt-dlp invocation with the fallback arguments;
\* when it succeeds the error of the first invocation is dropped
DownloadAudioFallback(o) ==
    /\ pc = "download_fallback" /\ impl = "pkg"
    /\ Ran
    /\ dlAttempts' = dlAttempts + 1
    /\ CASE o = "ok" -> /\ temps' = temps \cup {"audioFile"}
                        /\ pc' = "transcribe"
                        /\ swallowed' = swallowed \cup {"download"}
                        /\ UNCHANGED <<result, errMsg, failedStage>>
         [] o = "hang" -> /\ pc' = "blocked"
                          /\ UNCHANGED <<result, errMsg, failedStage, temps, swallowed>>
         [] o = "fail" -> /\ Return("download", "failed to download audio", temps)
                          /\ UNCHANGED swallowed
    /\ hung' = Hangs(o, "download")
    /\ UNCHANGED <<inputVars, exitCode, convAttempts, clientVars, outVars, sanVars, pathVars, harnessVars>>

\* processLocalAudio: os.Stat(filePath), in both programs; an error other than
\* "does not exist" is dropped
processLocalAudioStat ==
    /\ pc = "stat"
    /\ Ran
    /\ IF ~IsNotExist(statErr)
       THEN /\ pc' = IF impl = "pkg" THEN "mktemp" ELSE "upload"
            /\ swallowed' = IF statErr = "nil" THEN swallowed ELSE swallowed \cup {"stat"}
            /\ UNCHANGED <<result, errMsg, failedStage, temps>>
       ELSE /\ Return("notfound", "audio file not found", temps)
            /\ UNCHANGED swallowed
    /\ UNCHANGED <<inputVars, exitCode, dlAttempts, convAttempts, hung, clientVars, outVars, sanVars,
                   pathVars, harnessVars>>

\* processLocalAudio: os.MkdirTemp("", "sona-*") and defer os.RemoveAll
processLocalAudioMkdirTemp(ok) ==
    /\ pc = "mktemp" /\ impl = "pkg"
    /\ Ran
    /\ IF ok
       THEN /\ temps' = temps \cup {"tempDir"}
            /\ pc' = "convert"
            /\ UNCHANGED <<result, errMsg, failedStage>>
       ELSE /\ pc' = "returned"
            /\ result' = "mktemp"
            /\ errMsg' = "failed to create temp directory"
            /\ failedStage' = StageOfPc(pc)
            /\ UNCHANGED temps
    /\ UNCHANGED <<inputVars, exitCode, acqVars, clientVars, outVars, sanVars, pathVars, harnessVars>>

\* a pipeline that goes on to transcribe the original file when ffmpeg failed
convertAudioToMP3_ignoreError(o) ==
    /\ pc = "convert" /\ impl = "pkg"
    /\ Ran
    /\ o = "ok" => SourceReadable
    /\ CASE o = "nobinary" -> Return("convert", "FFmpeg is required", temps)
                                /\ UNCHANGED convAttempts
         [] o = "fail" -> /\ convAttempts' = convAttempts + 1
                          /\ failedStage' = StageOfPc(pc)
                          /\ pc' = "transcribe"
                          /\ UNCHANGED <<result, errMsg, temps>>
         [] o = "ok" -> /\ convAttempts' = convAttempts + 1
                        /\ temps' = temps \cup {"converted"}
                        /\ pc' = "transcribe"
                        /\ UNCHANGED <<result, errMsg, failedStage>>
    /\ UNCHANGED <<inputVars, exitCode, dlAttempts, swallowed, hung, clientVars, outVars, sanVars, pathVars, harnessVars>>

\* convertAudioToMP3: locate ffmpeg, run it once into tempDir/converted.mp3
convertAudioToMP3(o) ==
    /\ pc = "convert" /\ impl = "pkg"
    /\ Ran
    /\ o = "ok" => SourceReadable
    /\ CASE o = "nobinary" -> Return("convert", "FFmpeg is required", temps)
                                /\ UNCHANGED convAttempts
         [] o = "fail" -> /\ convAttempts' = convAttempts + 1
                          /\ Return("convert", "failed to convert audio", temps)
         [] o = "ok" -> /\ convAttempts' = convAttempts + 1
                        /\ temps' = temps \cup {"converted"}
                        /\ pc' = "transcribe"
                        /\ UNCHANGED <<result, errMsg, failedStage>>
    /\ UNCHANGED <<inputVars, exitCode, dlAttempts, swallowed, hung, clientVars, outVars, sanVars, pathVars, harnessVars>>

\* transcribeAudio: os.Stat(audioPath), then config.GetAPIKey(), which exits
\* the process when no key is configured
transcribeAudio ==
    /\ pc = "transcribe" /\ impl = "pkg"
    /\ Ran
    /\ IF hasKey
       THEN pc' = "upload" /\ UNCHANGED <<result, errMsg, failedStage, temps>>
       ELSE Exit
    /\ UNCHANGED <<inputVars, exitCode, acqVars, clientVars, outVars, sanVars, pathVars, harnessVars>>

(***************************************************************************)
(* Legacy root package: transcribe command, youtube.go                     *)
(***************************************************************************)
\* transcribeCmd.Run: getAPIKey() exits without a key, then dispatch
rootTranscribeCmdRun ==
    /\ pc = "start" /\ impl = "root" /\ entry = "transcribe"
    /\ Ran
    /\ IF hasKey
       THEN /\ pc' = IF kind = "youtube" THEN "root_mktemp" ELSE "stat"
            /\ UNCHANGED <<result, errMsg, failedStage, temps>>
       ELSE Exit
    /\ UNCHANGED <<inputVars, exitCode, acqVars, clientVars, outVars, sanVars, pathVars, harnessVars>>

\* processYouTubeVideo: os.MkdirTemp and defer os.RemoveAll(tempDir)
rootProcessYouTubeVideoMkdirTemp(ok) ==
    /\ pc = "root_mktemp" /\ impl = "root"
    /\ Ran
    /\ IF ok
       THEN /\ temps' = temps \cup {"tempDir"}
            /\ pc' = "root_download"
            /\ UNCHANGED <<result, errMsg, failedStage>>
       ELSE /\ pc' = "returned"
            /\ result' = "mktemp"
            /\ errMsg' = "failed to create temp directory"
            /\ failedStage' = StageOfPc(pc)
            /\ UNCHANGED temps
    /\ UNCHANGED <<inputVars, exitCode, acqVars, clientVars, outVars, sanVars, pathVars, harnessVars>>

\* downloadYouTubeAudio: yt-dlp; on any error the caller tries the fallback
downloadYouTubeAudio(o) ==
    /\ pc = "root_download" /\ impl = "root"
    /\ Ran
    /\ CASE o = "nobinary" -> /\ pc' = "root_download_fallback"
                              /\ UNCHANGED <<dlAttempts, temps>>
         [] o = "fail" -> /\ dlAttempts' = dlAttempts + 1
                          /\ pc' = "root_download_fallback"
                          /\ UNCHANGED temps
         [] o = "hang" -> /\ dlAttempts' = dlAttempts + 1
                          /\ pc' = "blocked"
                          /\ UNCHANGED temps
         [] o = "ok" -> /\ dlAttempts' = dlAttempts + 1
                        /\ temps' = temps \cup {"audioFile"}
                        /\ pc' = "upload"
    /\ hung' = Hangs(o, "download")
    /\ UNCHANGED <<result, errMsg, failedStage>>
    /\ UNCHANGED <<inputVars, exitCode, convAttempts, swallowed, clientVars, outVars, sanVars, pathVars, harnessVars>>

\* downloadYouTubeAudioFallback: youtube-dl; when it succeeds the error of
\* yt-dlp is dropped
downloadYouTubeAudioFallback(o) ==
    /\ pc = "root_download_fallback" /\ impl = "root"
    /\ Ran
    /\ CASE o = "nobinary" -> /\ Return("download", "neither yt-dlp nor youtube-dl found", temps)
                                /\ UNCHANGED <<dlAttempts, swallowed>>
         [] o = "fail" -> /\ dlAttempts' = dlAttempts + 1
                          /\ Return("download", "youtube-dl failed", temps)
                          /\ UNCHANGED swallowed
         [] o = "hang" -> /\ dlAttempts' = dlAttempts + 1
                          /\ pc' = "blocked"
                          /\ UNCHANGED <<result, errMsg, failedStage, temps, swallowed>>
         [] o = "ok" -> /\ dlAttempts' = dlAttempts + 1
                        /\ temps' = temps \cup {"audioFile"}
                        /\ pc' = "upload"
                        /\ swallowed' = swallowed \cup {"download"}
                        /\ UNCHANGED <<result, errMsg, failedStage>>
    /\ hung' = Hangs(o, "download")
    /\ UNCHANGED <<inputVars, exitCode, convAttempts, clientVars, outVars, sanVars, pathVars, harnessVars>>

(***************************************************************************)
(* The transcriber with the metadata lookup, and the downloader that runs  *)
(* yt-dlp once under a deadline                                            *)
(***************************************************************************)
\* what a subprocess run under a context deadline can do: finish well, finish
\* with an error, or not finish, in which case the deadline kills it
Bounded == {"ok", "fail", "hang"}

\* TranscribeCmd.Run: config.GetAPIKey() exits without a key, then the
\* dependency check, then dispatch
lookupTranscribeCmdRun(depsOK) ==
    /\ pc = "start" /\ impl = "lookup" /\ entry = "transcribe"
    /\ Ran
    /\ IF hasKey /\ depsOK
       THEN pc' = "lookup_info" /\ UNCHANGED <<result, errMsg, failedStage, temps>>
       ELSE Exit
    /\ UNCHANGED <<inputVars, exitCode, acqVars, clientVars, outVars, sanVars, pathVars, harnessVars>>

\* a lookup whose error ends the run
GetVideoInfo_fatal(o) ==
    /\ pc = "lookup_info" /\ impl = "lookup"
    /\ Ran
    /\ IF o = "ok"
       THEN pc' = "lookup_mktemp" /\ UNCHANGED <<result, errMsg, failedStage, temps>>
       ELSE Return("metadata", "failed to get video info", temps)
    /\ UNCHANGED <<inputVars, exitCode, dlAttempts, convAttempts, swallowed, hung, clientVars, outVars,
                   sanVars, pathVars, harnessVars>>

\* processYouTubeVideo: youtube.GetVideoInfo(url), yt-dlp --print under a
\* 30 s deadline, at which a lookup that hangs ends with an error; the title
\* is printed if err == nil, the error is not looked at
GetVideoInfo(o) ==
    /\ pc = "lookup_info" /\ impl = "lookup"
    /\ Ran
    /\ swallowed' = IF o = "ok" THEN swallowed ELSE swallowed \cup {"metadata"}
    /\ pc' = "lookup_mktemp"
    /\ UNCHANGED <<result, errMsg, failedStage, temps>>
    /\ UNCHANGED <<inputVars, exitCode, dlAttempts, convAttempts, hung, clientVars, outVars, sanVars, pathVars, harnessVars>>

\* processYouTubeVideo: os.MkdirTemp and defer os.RemoveAll(tempDir)
lookupMkdirTemp(ok) ==
    /\ pc = "lookup_mktemp" /\ impl = "lookup"
    /\ Ran
    /\ IF ok
       THEN /\ temps' = temps \cup {"tempDir"}
            /\ pc' = "lookup_download"
            /\ UNCHANGED <<result, errMsg, failedStage>>
       ELSE /\ pc' = "returned"
            /\ result' = "mktemp"
            /\ errMsg' = "failed to create temp directory"
            /\ failedStage' = StageOfPc(pc)
            /\ UNCHANGED temps
    /\ UNCHANGED <<inputVars, exitCode, acqVars, clientVars, outVars, sanVars, pathVars, harnessVars>>

\* youtube.DownloadAudio(url, tempDir): locate or install yt-dlp; getVideoInfo,
\* whose error only prints a warning and sets the title to "Unknown"; then
\* one yt-dlp run under context.WithTimeout(5 min), whose error, the kill at
\* the deadline included, is returned as "failed to download audio"
lookupDownloadAudio(m, o) ==
    /\ pc = "lookup_download" /\ impl = "lookup"
    /\ Ran
    /\ IF o = "nobinary"
       THEN /\ m = "ok"
            /\ Return("download", "yt-dlp is required but could not be installed", temps)
            /\ UNCHANGED <<dlAttempts, swallowed, hung>>
       ELSE /\ swallowed' = IF m = "ok" THEN swallowed ELSE swallowed \cup {"metadata"}
            /\ hung' = Hangs(o, "download")
            /\ dlAttempts' = dlAttempts + 1
            /\ IF o = "ok"
               THEN /\ temps' = temps \cup {"audioFile"}
                    /\ pc' = "upload"
                    /\ UNCHANGED <<result, errMsg, failedStage>>
               ELSE Return("download", "failed to download audio", temps)
    /\ UNCHANGED <<inputVars, exitCode, convAttempts, clientVars, outVars, sanVars, pathVars, harnessVars>>

(***************************************************************************)
(* AssemblyAI client: upload, submit, poll                                 *)
(***************************************************************************)
\* uploadAudioFile whose error the caller ignores: submit follows a failed upload
uploadAudioFile_ignoreError(o, url) ==
    /\ pc = "upload"
    /\ Ran
    /\ uploads' = IF AudioOpens THEN uploads + 1 ELSE uploads
    /\ uploadResp' = IF AudioOpens THEN o ELSE uploadResp
    /\ uploadRes' = IF AudioOpens /\ HTTPResult(o) = "ok" THEN "ok" ELSE "fail"
    /\ uploadURL' = IF AudioOpens /\ HTTPResult(o) = "ok" THEN url ELSE ""
    /\ pc' = "submit"
    /\ UNCHANGED <<result, errMsg, failedStage, temps>>
    /\ UNCHANGED <<inputVars, exitCode, acqVars, submits, fetches, attempts, submitRes, submitResp,
                   pollResp, sentURL, fetchedID,
                   jobID, lastResp, terminals, onlyUnrec, transcript, outVars, sanVars, pathVars, harnessVars>>

\* uploadAudioFile: os.Open(audioPath), then one POST /v2/upload; the handle is whatever upload_url decodes to
uploadAudioFile(o, url) ==
    /\ pc = "upload"
    /\ Ran
    /\ IF ~AudioOpens
       THEN /\ uploadRes' = "fail"
            /\ UNCHANGED <<uploads, uploadResp, uploadURL>>
            /\ Return("upload", "failed to open audio file", temps)
       ELSE /\ uploads' = uploads + 1
            /\ uploadResp' = o
            /\ IF HTTPResult(o) = "ok"
               THEN /\ uploadRes' = "ok"
                    /\ uploadURL' = url
                    /\ pc' = "submit"
                    /\ UNCHANGED <<result, errMsg, failedStage, temps>>
               ELSE /\ uploadRes' = "fail"
                    /\ UNCHANGED uploadURL
                    /\ Return("upload", HTTPResult(o), temps)
    /\ UNCHANGED <<inputVars, exitCode, acqVars, submits, fetches, attempts, submitRes, submitResp,
                   pollResp, sentURL, fetchedID,
                   jobID, lastResp, terminals, onlyUnrec, transcript, outVars, sanVars, pathVars, harnessVars>>

\* submitTranscription: one POST /v2/transcript; the id is whatever id decodes to
submitTranscription(o, id) ==
    /\ pc = "submit"
    /\ Ran
    /\ submits' = submits + 1
    /\ sentURL' = uploadURL
    /\ submitResp' = o
    /\ IF HTTPResult(o) = "ok"
       THEN /\ submitRes' = "ok"
            /\ jobID' = id
            /\ pc' = "poll"
            /\ UNCHANGED <<result, errMsg, failedStage, temps>>
       ELSE /\ submitRes' = "fail"
            /\ UNCHANGED jobID
            /\ Return("submit", HTTPResult(o), temps)
    /\ UNCHANGED <<inputVars, exitCode, acqVars, uploads, fetches, attempts, uploadRes, uploadResp,
                   pollResp, fetchedID,
                   uploadURL, lastResp, terminals, onlyUnrec, transcript, outVars, sanVars, pathVars, harnessVars>>

\* polling that goes on after status error
IsTerminal_onlyCompleted(status) == status = "completed"

\* the statuses on which pollTranscription returns the result
IsTerminal(status) == status \in {"completed", "error"}

\* the loop condition of pollTranscription: attempts < maxAttempts in
\* Client.pollTranscription, none (for { ... }, no counter) in the legacy function
LoopContinues(a) == IF impl # "root" THEN a < maxAttempts ELSE TRUE

\* an attempt counter that only counts queued and processing
NextAttempt_skipUnknown(status, a) ==
    IF status \in {"queued", "processing"} THEN a + 1 ELSE a

\* the attempt counter after a fetch that reported a non-terminal status
NextAttempt(status, a) == a + 1

\* TranscribeAudio without the check of transcript.Status == "error"
TranscribeResult_noErrorCheck(r) == [text |-> r.text, err |-> "none", msg |-> ""]

\* TranscribeAudio that reports a job error without the service's message
TranscribeResult_genericError(r) ==
    IF r.status = "error"
    THEN [text |-> "", err |-> "joberror", msg |-> "transcription failed"]
    ELSE [text |-> r.text, err |-> "none", msg |-> ""]

\* what TranscribeAudio returns for the result r that polling returned
TranscribeResult(r) ==
    IF r.status = "error"
    THEN [text |-> "", err |-> "joberror", msg |-> r.error]
    ELSE [text |-> r.text, err |-> "none", msg |-> ""]

\* a polling loop that goes on to the next attempt when a fetch failed
pollTranscription_retryOnError(o, r) ==
    /\ pc = "poll"
    /\ Ran
    /\ LoopContinues(attempts)
    /\ fetches' = IF fetches < MaxFetch THEN fetches + 1 ELSE fetches
    /\ pollResp' = HTTPResult(o)
    /\ fetchedID' = jobID
    /\ IF HTTPResult(o) # "ok"
       THEN /\ attempts' = attempts + 1
            /\ onlyUnrec' = FALSE
            /\ UNCHANGED <<pc, result, errMsg, failedStage, temps, lastResp, terminals,
                           transcript>>
       ELSE /\ lastResp' = r
            /\ onlyUnrec' = (onlyUnrec /\ r.status \notin {"queued", "processing", "completed", "error"})
            /\ terminals' = IF r.status \in {"completed", "error"} THEN terminals + 1 ELSE terminals
            /\ IF IsTerminal(r.status)
               THEN LET ret == TranscribeResult(r) IN
                    /\ transcript' = ret.text
                    /\ UNCHANGED attempts
                    /\ IF ret.err = "none"
                       THEN pc' = "save" /\ UNCHANGED <<result, errMsg, failedStage, temps>>
                       ELSE Return(ret.err, ret.msg, temps)
               ELSE /\ attempts' = IF impl # "root" THEN NextAttempt(r.status, attempts)
                                  ELSE attempts
                    /\ UNCHANGED <<pc, result, errMsg, failedStage, temps, transcript>>
    /\ UNCHANGED <<inputVars, exitCode, acqVars, uploads, submits, uploadRes, submitRes, uploadResp,
                   submitResp, sentURL, uploadURL, jobID, outVars, sanVars, pathVars, harnessVars>>

\* one iteration of pollTranscription: a GET /v2/transcript/{id}
pollTranscription(o, r) ==
    /\ pc = "poll"
    /\ Ran
    /\ LoopContinues(attempts)
    /\ fetches' = IF fetches < MaxFetch THEN fetches + 1 ELSE fetches
    /\ pollResp' = HTTPResult(o)
    /\ fetchedID' = jobID
    /\ IF HTTPResult(o) # "ok"
       THEN /\ Return("pollfetch", HTTPResult(o), temps)
            /\ onlyUnrec' = FALSE
            /\ UNCHANGED <<attempts, lastResp, terminals, transcript>>
       ELSE /\ lastResp' = r
            /\ onlyUnrec' = (onlyUnrec /\ r.status \notin {"queued", "processing", "completed", "error"})
            /\ terminals' = IF r.status \in {"completed", "error"} THEN terminals + 1 ELSE terminals
            /\ IF IsTerminal(r.status)
               THEN LET ret == TranscribeResult(r) IN
                    /\ transcript' = ret.text
                    /\ UNCHANGED attempts
                    /\ IF ret.err = "none"
                       THEN pc' = "save" /\ UNCHANGED <<result, errMsg, failedStage, temps>>
                       ELSE Return(ret.err, ret.msg, temps)
               ELSE /\ attempts' = IF impl # "root" THEN NextAttempt(r.status, attempts)
                                  ELSE attempts
                    /\ UNCHANGED <<pc, result, errMsg, failedStage, temps, transcript>>
    /\ UNCHANGED <<inputVars, exitCode, acqVars, uploads, submits, uploadRes, submitRes, uploadResp,
                   submitResp, sentURL, uploadURL, jobID, outVars, sanVars, pathVars, harnessVars>>

\* pollTranscription falls out of the loop: "transcription polling timed out"
pollTimeout ==
    /\ pc = "poll"
    /\ Ran
    /\ ~LoopContinues(attempts)
    /\ Return("timeout", "transcription polling timed out", temps)
    /\ UNCHANGED <<inputVars, exitCode, acqVars, clientVars, outVars, sanVars, pathVars, harnessVars>>

(***************************************************************************)
(* saveTranscript and the end of the run                                   *)
(***************************************************************************)
\* a write that leaves an existing file as it is
WriteFile_keepExisting(old, data) == IF old = NoFile THEN data ELSE old

\* os.WriteFile(name, data, 0644): the file is created or truncated and then
\* holds data
WriteFile(old, data) == data

\* a saveTranscript that writes the file a second time
saveTranscript_twice(ok) ==
    /\ pc = "save"
    /\ Ran
    /\ IF ok
       THEN /\ outFile' = WriteFile(WriteFile(outFile, transcript), transcript)
            /\ writes' = writes + 2
            /\ Return("ok", "",
                      IF impl = "pkg" /\ kind = "youtube" THEN temps \ {"audioFile"} ELSE temps)
       ELSE /\ UNCHANGED outVars
            /\ Return("save", "failed to save transcript", temps)
    /\ UNCHANGED <<inputVars, exitCode, acqVars, clientVars, sanVars, pathVars, harnessVars>>

\* saveTranscript: os.WriteFile(finalOutputPath, transcript); afterwards
\* pkg processYouTubeVideo removes the audio file, then the run returns nil
saveTranscript(ok) ==
    /\ pc = "save"
    /\ Ran
    /\ IF ok
       THEN /\ outFile' = WriteFile(outFile, transcript)
            /\ writes' = writes + 1
            /\ Return("ok", "",
                      IF impl = "pkg" /\ kind = "youtube" THEN temps \ {"audioFile"} ELSE temps)
       ELSE /\ UNCHANGED outVars
            /\ Return("save", "failed to save transcript", temps)
    /\ UNCHANGED <<inputVars, exitCode, acqVars, clientVars, sanVars, pathVars, harnessVars>>

Next ==
    \/ \E ok \in BOOLEAN : TranscribeCmdRun(ok)
    \/ \E o \in {"nobinary", "fail", "hang", "ok"} : DownloadAudio(o)
    \/ \E o \in Bounded : DownloadAudioFallback(o)
    \/ processLocalAudioStat
    \/ \E ok \in BOOLEAN : processLocalAudioMkdirTemp(ok)
    \/ \E o \in {"nobinary", "fail", "ok"} : convertAudioToMP3(o)
    \/ transcribeAudio
    \/ rootTranscribeCmdRun
    \/ \E ok \in BOOLEAN : rootProcessYouTubeVideoMkdirTemp(ok)
    \/ \E o \in {"nobinary", "fail", "hang", "ok"} : downloadYouTubeAudio(o)
    \/ \E o \in {"nobinary", "fail", "hang", "ok"} : downloadYouTubeAudioFallback(o)
    \/ \E ok \in BOOLEAN : lookupTranscribeCmdRun(ok)
    \/ \E o \in Bounded : GetVideoInfo(o)
    \/ \E ok \in BOOLEAN : lookupMkdirTemp(ok)
    \/ \E m \in Bounded, o \in {"nobinary", "fail", "hang", "ok"} : lookupDownloadAudio(m, o)
    \/ \E o \in HTTPOutcomes, url \in Handles : uploadAudioFile(o, url)
    \/ \E o \in HTTPOutcomes, id \in JobIDs : submitTranscription(o, id)
    \/ \E o \in HTTPOutcomes, r \in PollResponses : pollTranscription(o, r)
    \/ pollTimeout
    \/ \E ok \in BOOLEAN : saveTranscript(ok)

Spec == Init /\ [][Next]_vars

\* the command is run again on the same source after a run that succeeded:
\* a new process starts, the destination file is what the last run left
RunAgain ==
    /\ pc = "returned" /\ result = "ok"
    /\ runs < MaxRuns
    /\ runs' = runs + 1
    /\ pc' = "start"
    /\ result' = "none"
    /\ errMsg' = ""
    /\ temps' = {}
    /\ dlAttempts' = 0 /\ convAttempts' = 0
    /\ swallowed' = {} /\ hung' = {}
    /\ uploads' = 0 /\ submits' = 0 /\ fetches' = 0 /\ attempts' = 0
    /\ uploadRes' = "none" /\ submitRes' = "none"
    /\ uploadResp' = NoHTTP /\ submitResp' = NoHTTP /\ pollResp' = "none"
    /\ sentURL' = "<none>" /\ fetchedID' = "<none>"
    /\ uploadURL' = "" /\ jobID' = ""
    /\ lastResp' = NoResp
    /\ terminals' = 0
    /\ onlyUnrec' = TRUE
    /\ transcript' = ""
    /\ outFile0' = outFile
    /\ writes' = 0
    /\ stagesRun' = <<>>
    /\ failedStage' = "none"
    /\ UNCHANGED <<entry, exitCode, impl, kind, hasKey, srcExists, statErr, outFile, sanVars,
                   pathVars, harnessVars>>

NextRuns == Next \/ RunAgain

SpecRuns == Init /\ [][NextRuns]_vars

\* the ways the pipeline is started
Entries == {"transcribe", "interactive"}

\* the interactive mode calls the exported functions with (source, apiKey):
\* those of the transcriber with the metadata lookup; the destination file
\* does not exist yet
InitEntry ==
    /\ InitRun /\ SanIdle /\ PathIdle /\ HarnessIdle
    /\ outFile0 = NoFile
    /\ entry \in Entries
    /\ entry = "interactive" => impl = "lookup"

\* runInteractiveMode: checkAndSetAPIKey asks for a key until it has one, the
\* prompts, confirmSettings, then transcriber.ProcessYouTubeVideo(source, apiKey)
runInteractiveMode(confirmed) ==
    /\ pc = "start" /\ entry = "interactive"
    /\ Ran
    /\ IF confirmed
       THEN pc' = "lookup_info" /\ UNCHANGED <<result, errMsg, failedStage, temps>>
       ELSE /\ pc' = "returned" /\ result' = "canceled"
            /\ UNCHANGED <<errMsg, failedStage, temps>>
    /\ UNCHANGED <<inputVars, exitCode, acqVars, clientVars, outVars, sanVars, pathVars, harnessVars>>

\* the process ends: os.Exit(1) where the code calls it (a missing key or
\* dependency; in the transcribe command also `if err != nil` after the
\* pipeline). runInteractiveMode prints the error and returns, Execute returns
\* nil and main ends with status 0.
ProcessExit ==
    /\ pc \in {"returned", "exited"}
    /\ pc' = "ended"
    /\ exitCode' = IF pc = "exited" THEN 1
                   ELSE IF entry = "transcribe" /\ result # "ok" THEN 1
                   ELSE 0
    /\ UNCHANGED <<inputVars, result, errMsg, failedStage, temps, stagesRun, acqVars,
                   clientVars, outVars, sanVars, pathVars, harnessVars>>

NextEntry ==
    \/ Next
    \/ \E confirmed \in BOOLEAN : runInteractiveMode(confirmed)
    \/ ProcessExit

SpecEntry == InitEntry /\ [][NextEntry]_vars

\* The run is one sequential chain of blocking calls: as long as a step is
\* possible the process takes one, every HTTP call returning; a subprocess
\* that does not finish and has no deadline leaves the run at "blocked".
SpecLive == Init /\ [][Next]_vars /\ WF_vars(Next)

(***************************************************************************)
(* Sanitizer harness: sanitizeFilename applied once and then to its own    *)
(* result, on the inputs InitSan draws                                     *)
(***************************************************************************)
PipeIdle ==
    /\ InitPipe
    /\ impl = "pkg" /\ kind = "local" /\ hasKey /\ srcExists /\ statErr = "nil"
    /\ outFile0 = NoFile

InitSan ==
    /\ PipeIdle
    /\ PathIdle
    /\ HarnessIdle
    /\ sanPc = "in"
    /\ \E h \in SeqUpTo(Alphabet, MaxHead), p \in PadLens, t \in SeqUpTo(Alphabet, MaxTail) :
          sanIn = h \o Pad(p) \o t
    /\ sanOut1 = <<>>
    /\ sanOut2 = <<>>

SanitizeOnce ==
    /\ sanPc = "in"
    /\ sanOut1' = sanitizeFilename(sanIn)
    /\ sanPc' = "once"
    /\ UNCHANGED <<pipeVars, sanIn, sanOut2, pathVars, harnessVars>>

SanitizeTwice ==
    /\ sanPc = "once"
    /\ sanOut2' = sanitizeFilename(sanOut1)
    /\ sanPc' = "twice"
    /\ UNCHANGED <<pipeVars, sanIn, sanOut1, pathVars, harnessVars>>

NextSan == SanitizeOnce \/ SanitizeTwice

SpecSan == InitSan /\ [][NextSan]_vars

(***************************************************************************)
(* Source classification and saveTranscript's choice of finalOutputPath,   *)
(* as operators on character sequences                                     *)
(***************************************************************************)
\* strings.Index(s, sub) counted from 1; 0 when sub does not occur
IndexOf(s, sub) ==
    LET at == {i \in 1..(Len(s) - Len(sub) + 1) : SubSeq(s, i, i + Len(sub) - 1) = sub}
    IN  IF at = {} THEN 0 ELSE CHOOSE i \in at : \A j \in at : i <= j

\* strings.Contains(s, sub)
Contains(s, sub) == IndexOf(s, sub) # 0

\* strings.Split(s, sep)[0]
SplitHead(s, sep) == IF Contains(s, sep) THEN SubSeq(s, 1, IndexOf(s, sep) - 1) ELSE s

\* strings.Split(s, sep)[1], for s that contains sep
SplitSecond(s, sep) == SplitHead(SubSeq(s, IndexOf(s, sep) + Len(sep), Len(s)), sep)

\* the literals of the code
YoutubeCom == <<"y", "o", "u", "t", "u", "b", "e", ".", "c", "o", "m">>
YoutuBe == <<"y", "o", "u", "t", "u", ".", "b", "e">>
YoutuBeSlash == <<"y", "o", "u", "t", "u", ".", "b", "e", "/">>
VEquals == <<"v", "=">>
YoutubeDash == <<"y", "o", "u", "t", "u", "b", "e", "-">>
YoutubeVideo == <<"y", "o", "u", "t", "u", "b", "e", "-", "v", "i", "d", "e", "o">>
DotTxt == <<".", "t", "x", "t">>

\* a classification that only knows the long host name
IsYouTubeURL_onlyLong(url) == Contains(url, YoutubeCom)

\* youtube.IsYouTubeURL
IsYouTubeURL(url) == Contains(url, YoutubeCom) \/ Contains(url, YoutuBe)

\* an extraction that looks at the youtu.be/ path segment before v=
videoID_pathFirst(src) ==
    IF Contains(src, YoutuBeSlash) THEN SplitHead(SplitSecond(src, YoutuBeSlash), <<"?">>)
    ELSE IF Contains(src, VEquals) THEN SplitHead(SplitSecond(src, VEquals), <<"&">>)
    ELSE <<>>

\* videoID of saveTranscript: after "v=" up to "&", else after "youtu.be/" up to "?"
videoID(src) ==
    IF Contains(src, VEquals) THEN SplitHead(SplitSecond(src, VEquals), <<"&">>)
    ELSE IF Contains(src, YoutuBeSlash)
         THEN SplitHead(SplitSecond(src, YoutuBeSlash), <<"?">>)
         ELSE <<>>

\* saveTranscript found an identifier branch to take
HasVideoID(src) == Contains(src, VEquals) \/ Contains(src, YoutuBeSlash)

\* filepath.Base: trailing separators dropped, last element; "." for the empty path
Base(path) ==
    LET t == TrimRight(path, {"/"})
        cut == {i \in 1..Len(t) : t[i] = "/"}
        last == IF cut = {} THEN 0 ELSE CHOOSE i \in cut : \A j \in cut : j <= i
    IN  IF path = <<>> THEN <<".">>
        ELSE IF t = <<>> THEN <<"/">>
        ELSE SubSeq(t, last + 1, Len(t))

\* filepath.Ext of a base name: from its last dot, "" when it has none
Ext(name) ==
    LET dots == {i \in 1..Len(name) : name[i] = "."}
    IN  IF dots = {} THEN <<>>
        ELSE SubSeq(name, CHOOSE i \in dots : \A j \in dots : j <= i, Len(name))

\* a title that keeps the extension of the file
localTitle_keepExt(src) == Base(src)

\* title of a local source: the base name, without its extension when both
\* the extension and the rest are not empty
localTitle(src) ==
    LET baseName == Base(src)
        ext == Ext(baseName)
    IN  IF Len(ext) > 0 /\ Len(baseName) > Len(ext)
        THEN SubSeq(baseName, 1, Len(baseName) - Len(ext))
        ELSE baseName

\* the title lookup failed
NoTitle == <<"<err>">>

\* title of a YouTube source in pkg/transcriber/transcriber.go: no lookup
youtubeTitle(src) ==
    IF HasVideoID(src) THEN YoutubeDash \o videoID(src) ELSE YoutubeVideo

\* title of a YouTube source in the variant with the title lookup: the title
\* youtube.GetVideoInfo returned, on its error the identifier
youtubeTitleLookup(src, meta) ==
    IF meta # NoTitle THEN meta ELSE videoID(src)

\* config.GetOutputPath()
DefaultPath == <<"/", "s", "o", "n", "a">>

\* filepath.Join(dir, name) for a clean dir and a name without separators
Join(dir, name) == dir \o <<"/">> \o name

\* fmt.Sprintf("%s-%s.txt", title, timestamp)
FileName(title, ts) == title \o <<"-">> \o ts \o DotTxt

\* a saveTranscript that always generates the default path
FinalOutputPath_ignoreExplicit(meta) ==
    LET title == IF sourceType = "youtube"
                 THEN IF titleLookup THEN youtubeTitleLookup(source, meta)
                                     ELSE youtubeTitle(source)
                 ELSE localTitle(source)
        clean == sanitizeFilename(title)
    IN  Join(DefaultPath, FileName(IF clean = <<>> THEN Transcript ELSE clean, timestamp))

\* finalOutputPath of saveTranscript
FinalOutputPath(meta) ==
    IF outputPath # <<>>
    THEN outputPath
    ELSE LET title == IF sourceType = "youtube"
                      THEN IF titleLookup THEN youtubeTitleLookup(source, meta)
                                          ELSE youtubeTitle(source)
                      ELSE localTitle(source)
             clean == sanitizeFilename(title)
         IN  Join(DefaultPath, FileName(IF clean = <<>> THEN Transcript ELSE clean, timestamp))

\* video identifiers and the sources built around them
VideoIDs == {<<"a", "b", "c", "1", "2", "3">>, <<"a", "A", "_", "1">>}
YouTubeSources ==
    UNION {{[url |-> <<"y", "o", "u", "t", "u", "b", "e", ".", "c", "o", "m", "/", "w", "a", "t", "c", "h", "?", "v", "=">> \o id, vid |-> id, form |-> "v"],
            [url |-> <<"y", "o", "u", "t", "u", "b", "e", ".", "c", "o", "m", "/", "w", "a", "t", "c", "h", "?", "v", "=">> \o id \o <<"&", "t", "=", "1">>, vid |-> id, form |-> "v"],
            [url |-> <<"y", "o", "u", "t", "u", "b", "e", ".", "c", "o", "m", "/", "w", "a", "t", "c", "h", "?", "t", "=", "1", "&", "v", "=">> \o id, vid |-> id, form |-> "v"],
            [url |-> <<"y", "o", "u", "t", "u", ".", "b", "e", "/", "z", "z", "9", "?", "v", "=">> \o id, vid |-> id, form |-> "v"],
            [url |-> <<"y", "o", "u", "t", "u", ".", "b", "e", "/">> \o id, vid |-> id, form |-> "short"],
            [url |-> <<"y", "o", "u", "t", "u", ".", "b", "e", "/">> \o id \o <<"?", "t", "=", "1">>, vid |-> id, form |-> "short"],
            [url |-> <<"y", "o", "u", "t", "u", "b", "e", ".", "c", "o", "m", "/", "e", "m", "b", "e", "d", "/">> \o id, vid |-> id, form |-> "none"]} : id \in VideoIDs}
LocalPaths == {<<"t", "a", "l", "k", ".", "m", "p", "3">>, <<"a", "/", "A", " ", "t", "a", "l", "k", ".", "v", "2", ".", "w", "a", "v">>, <<"/", "b", ".", "d", "/", "n", "o", "t", "e", "s">>, <<".", "m", "p", "3">>, <<"a", "/", ".", "b">>, <<"r", "e", "c", ".">>, <<"d", "/">>,
               <<"y", "o", "u", "t", "u", "b", "e", ".", "c", "o">>, <<"y", "o", "u", "t", "u", ".", "b", "/", "e">>, <<"a", "/", "y", "o", "u", "t", "u", ".", "b", "e", ".", "m", "p", "3">>, <<>>}
LocalSources == {[url |-> f, vid |-> <<>>, form |-> "none"] : f \in LocalPaths}
Titles == {<<"A", " ", "t", "a", "l", "k">>, <<"b", "/", "c">>}
Dates == {<<"2", "0", "2", "5", "0", "1", "0", "1">>, <<"2", "0", "2", "5", "0", "1", "0", "2">>}
OutputPaths == {<<>>, <<"x", ".", "t", "x", "t">>}

(***************************************************************************)
(* Output-path harness: one source is classified and saveTranscript        *)
(* computes finalOutputPath for two runs on it on the same day             *)
(***************************************************************************)
InitPath ==
    /\ PipeIdle
    /\ SanIdle
    /\ HarnessIdle
    /\ pathPc = "in"
    /\ \E src \in YouTubeSources \cup LocalSources :
          source = src.url /\ vid = src.vid /\ form = src.form
    /\ sourceType = "none"
    /\ outputPath \in OutputPaths
    /\ timestamp \in Dates
    /\ titleLookup \in BOOLEAN
    /\ meta1 \in Titles \cup {NoTitle}
    /\ meta2 \in Titles \cup {NoTitle}
    /\ dirExists \in BOOLEAN
    /\ finalOutputPath1 = <<>>
    /\ finalOutputPath2 = <<>>

\* TranscribeCmd.Run: youtube.IsYouTubeURL(source) selects the pipeline
Classify ==
    /\ pathPc = "in"
    /\ sourceType' = IF IsYouTubeURL(source) THEN "youtube" ELSE "local"
    /\ pathPc' = "classified"
    /\ UNCHANGED <<pipeVars, sanVars, harnessVars, source, vid, form, outputPath, timestamp, titleLookup,
                   meta1, meta2, dirExists, finalOutputPath1, finalOutputPath2>>

\* saveTranscript of the first run: os.MkdirAll(defaultPath) when no output
\* path was given, then the path is chosen
SaveFirst ==
    /\ pathPc = "classified"
    /\ dirExists' = IF outputPath = <<>> THEN TRUE ELSE dirExists
    /\ finalOutputPath1' = FinalOutputPath(meta1)
    /\ pathPc' = "one"
    /\ UNCHANGED <<pipeVars, sanVars, harnessVars, source, vid, form, sourceType, outputPath, timestamp,
                   titleLookup, meta1, meta2, finalOutputPath2>>

\* saveTranscript of a second run on the same source on the same day
SaveSecond ==
    /\ pathPc = "one"
    /\ dirExists' = IF outputPath = <<>> THEN TRUE ELSE dirExists
    /\ finalOutputPath2' = FinalOutputPath(meta2)
    /\ pathPc' = "two"
    /\ UNCHANGED <<pipeVars, sanVars, harnessVars, source, vid, form, sourceType, outputPath, timestamp,
                   titleLookup, meta1, meta2, finalOutputPath1>>

NextPath == Classify \/ SaveFirst \/ SaveSecond

SpecPath == InitPath /\ [][NextPath]_vars

(***************************************************************************)
(* Concurrent-runs harness: NProcs independent invocations of the          *)
(* transcribe command of pkg/transcriber at the same time, with the paths  *)
(* their intermediate audio goes to                                        *)
(***************************************************************************)
\* filepath.Dir on a path given by its elements; Dir("") is "."
Dir(path) == IF Len(path) <= 1 THEN <<".">> ELSE SubSeq(path, 1, Len(path) - 1)

\* filepath.Join(dir, name), which cleans "./name" to "name"
JoinElem(dir, name) == IF dir = <<".">> THEN <<name>> ELSE dir \o <<name>>

\* values of the --output flag: none, a file in the working directory, two
\* files of one directory
ConcOutputs == {<<>>, <<"a.txt">>, <<"out", "a.txt">>, <<"out", "b.txt">>}

\* directory names os.MkdirTemp("", "sona-*") can come up with
TempNames == {"sona-1", "sona-2", "sona-3"}

\* os.TempDir()
TempRoot == <<"tmp">>

\* path p lies in directory dir
Under(p, dir) == Len(p) >= Len(dir) /\ SubSeq(p, 1, Len(dir)) = dir

InitConc ==
    /\ PipeIdle /\ SanIdle /\ PathIdle /\ ApiIdle /\ KeyIdle
    /\ cPc = [p \in Procs |-> "start"]
    /\ cKind \in [Procs -> Kinds]
    /\ cOut \in [Procs -> ConcOutputs]
    /\ cTempDir = [p \in Procs |-> <<>>]
    /\ cAudio = [p \in Procs |-> <<>>]
    /\ fs = {}

\* processYouTubeVideo: youtube.DownloadAudio(url, filepath.Dir(outputPath))
\* writes filepath.Join(outputDir, "youtube_audio.mp3")
concDownloadAudio(p) ==
    /\ cPc[p] = "start" /\ cKind[p] = "youtube"
    /\ cAudio' = [cAudio EXCEPT ![p] = JoinElem(Dir(cOut[p]), "youtube_audio.mp3")]
    /\ fs' = fs \cup {cAudio'[p]}
    /\ cPc' = [cPc EXCEPT ![p] = "transcribe"]
    /\ UNCHANGED <<pipeVars, sanVars, pathVars, apiVars, keyVars, cKind, cOut, cTempDir>>

\* processLocalAudio: os.MkdirTemp("", "sona-*") creates a directory that
\* did not exist
concMkdirTemp(p, n) ==
    /\ cPc[p] = "start" /\ cKind[p] = "local"
    /\ JoinElem(TempRoot, n) \notin fs
    /\ cTempDir' = [cTempDir EXCEPT ![p] = JoinElem(TempRoot, n)]
    /\ fs' = fs \cup {cTempDir'[p]}
    /\ cPc' = [cPc EXCEPT ![p] = "convert"]
    /\ UNCHANGED <<pipeVars, sanVars, pathVars, apiVars, keyVars, cKind, cOut, cAudio>>

\* convertAudioToMP3(filePath, tempDir) writes tempDir/converted.mp3
concConvertAudioToMP3(p) ==
    /\ cPc[p] = "convert"
    /\ cAudio' = [cAudio EXCEPT ![p] = JoinElem(cTempDir[p], "converted.mp3")]
    /\ fs' = fs \cup {cAudio'[p]}
    /\ cPc' = [cPc EXCEPT ![p] = "transcribe"]
    /\ UNCHANGED <<pipeVars, sanVars, pathVars, apiVars, keyVars, cKind, cOut, cTempDir>>

\* the end of the run: os.Remove(audioFile) in processYouTubeVideo, the
\* deferred os.RemoveAll(tempDir) in processLocalAudio
concReturn(p) ==
    /\ cPc[p] = "transcribe"
    /\ fs' = IF cKind[p] = "youtube" THEN fs \ {cAudio[p]}
             ELSE {f \in fs : ~Under(f, cTempDir[p])}
    /\ cPc' = [cPc EXCEPT ![p] = "done"]
    /\ UNCHANGED <<pipeVars, sanVars, pathVars, apiVars, keyVars, cKind, cOut, cTempDir, cAudio>>

NextConc ==
    \/ \E p \in Procs : concDownloadAudio(p)
    \/ \E p \in Procs, n \in TempNames : concMkdirTemp(p, n)
    \/ \E p \in Procs : concConvertAudioToMP3(p)
    \/ \E p \in Procs : concReturn(p)

SpecConc == InitConc /\ [][NextConc]_vars

(***************************************************************************)
(* Exported-functions harness: one process calls SetOutputPath,            *)
(* ProcessLocalAudio and ProcessYouTubeVideo of pkg/transcriber in any     *)
(* order; every pipeline succeeds and saveTranscript chooses the path      *)
(***************************************************************************)
\* calls made in one process
MaxCalls == 3

\* values of an output path: none and two files
ApiPaths == {<<>>, <<"x", ".", "t", "x", "t">>, <<"y", ".", "t", "x", "t">>}

ApiLocal == {<<"t", "a", "l", "k", ".", "m", "p", "3">>, <<"n", "o", "t", "e", "s">>}
ApiYouTube == {<<"y", "o", "u", "t", "u", ".", "b", "e", "/", "a", "b", "c", "1", "2", "3">>}

\* the package variable outputPath holds "" when the process starts
InitApi ==
    /\ PipeIdle /\ SanIdle /\ ConcIdle /\ KeyIdle
    /\ pathPc = "off" /\ source = <<>> /\ vid = <<>> /\ form = "none"
    /\ sourceType = "none" /\ outputPath = <<>>
    /\ timestamp \in Dates
    /\ titleLookup = FALSE /\ meta1 = <<>> /\ meta2 = <<>> /\ dirExists = FALSE
    /\ finalOutputPath1 = <<>> /\ finalOutputPath2 = <<>>
    /\ apiPc = "idle" /\ calls = 0 /\ argOut = <<>> /\ dest = <<>>

\* SetOutputPath(path): outputPath = path
SetOutputPath(path) ==
    /\ apiPc \in {"idle", "called"} /\ calls < MaxCalls
    /\ calls' = calls + 1
    /\ outputPath' = path
    /\ UNCHANGED <<pipeVars, sanVars, concVars, keyVars, pathPc, source, vid, form, sourceType,
                   timestamp, titleLookup, meta1, meta2, dirExists, finalOutputPath1,
                   finalOutputPath2, apiPc, argOut, dest>>

\* ProcessLocalAudio(filePath, outputPath, speechModel) and
\* ProcessYouTubeVideo(url, outputPath, speechModel): the pipeline gets the
\* argument and runs up to saveTranscript(transcript, source, sourceType),
\* which is handed the source only
Process(src, type, out) ==
    /\ apiPc \in {"idle", "called"} /\ calls < MaxCalls
    /\ calls' = calls + 1
    /\ apiPc' = "save"
    /\ source' = src /\ sourceType' = type /\ argOut' = out
    /\ UNCHANGED <<pipeVars, sanVars, concVars, keyVars, pathPc, vid, form, outputPath, timestamp,
                   titleLookup, meta1, meta2, dirExists, finalOutputPath1,
                   finalOutputPath2, dest>>

\* saveTranscript of that run: it reads the package variable outputPath
apiSaveTranscript ==
    /\ apiPc = "save"
    /\ apiPc' = "called"
    /\ dest' = FinalOutputPath(NoTitle)
    /\ dirExists' = IF outputPath = <<>> THEN TRUE ELSE dirExists
    /\ UNCHANGED <<pipeVars, sanVars, concVars, keyVars, pathPc, source, vid, form, sourceType,
                   outputPath, timestamp, titleLookup, meta1, meta2, finalOutputPath1,
                   finalOutputPath2, calls, argOut>>

NextApi ==
    \/ \E path \in ApiPaths : SetOutputPath(path)
    \/ \E src \in ApiLocal, out \in ApiPaths : Process(src, "local", out)
    \/ \E src \in ApiYouTube, out \in ApiPaths : Process(src, "youtube", out)
    \/ apiSaveTranscript

SpecApi == InitApi /\ [][NextApi]_vars

(***************************************************************************)
(* API-key harness: a key is stored by SaveAPIKey, by `config set api_key` *)
(* or supplied through ASSEMBLYAI_API_KEY, then read by GetAPIKeyNoExit    *)
(***************************************************************************)
\* gcm.NonceSize() and the size of the GCM tag, in bytes
NonceSize == 12
TagSize == 16
\* IsEncrypted: len(decoded) >= 28
MinEncryptedLen == 28

\* characters of the standard base64 alphabet that occur in the keys
B64Chars == {"a", "A", "/"}

\* number of "=" at the end of s, up to two
PadCount(s) ==
    IF Len(s) >= 2 /\ s[Len(s)] = "=" /\ s[Len(s) - 1] = "=" THEN 2
    ELSE IF Len(s) >= 1 /\ s[Len(s)] = "=" THEN 1
    ELSE 0

\* base64.StdEncoding.DecodeString(s): whether it succeeds and the number
\* of bytes it yields
B64Valid(s) ==
    /\ Len(s) % 4 = 0
    /\ \A i \in 1..(Len(s) - PadCount(s)) : s[i] \in B64Chars
B64Len(s) == 3 * (Len(s) \div 4) - PadCount(s)

\* the same for a configuration value: what Encrypt made is the base64 of
\* nonce, ciphertext (as long as the plaintext) and tag
Decodes(v) == IF v.sealed THEN TRUE ELSE B64Valid(v.text)
DecodedLen(v) == IF v.sealed THEN NonceSize + Len(v.text) + TagSize ELSE B64Len(v.text)

\* EncryptionManager.IsEncrypted(text)
IsEncrypted(v) ==
    IF v = Plain(<<>>) THEN FALSE
    ELSE IF ~Decodes(v) THEN FALSE
    ELSE DecodedLen(v) >= MinEncryptedLen

\* EncryptionManager.Encrypt(plaintext); ok is whether rand.Read gave a nonce
Encrypt(plaintext, ok) ==
    IF plaintext = <<>> THEN [err |-> FALSE, val |-> Plain(<<>>)]
    ELSE IF ~ok THEN [err |-> TRUE, val |-> Plain(<<>>)]
    ELSE [err |-> FALSE, val |-> Sealed(plaintext)]

\* EncryptionManager.Decrypt(encryptedText): gcm.Open authenticates only
\* what was sealed with the master key
Decrypt(v) ==
    IF v = Plain(<<>>) THEN [err |-> FALSE, text |-> <<>>]
    ELSE IF ~Decodes(v) THEN [err |-> TRUE, text |-> <<>>]
    ELSE IF DecodedLen(v) < NonceSize THEN [err |-> TRUE, text |-> <<>>]
    ELSE IF v.sealed THEN [err |-> FALSE, text |-> v.text]
    ELSE [err |-> TRUE, text |-> <<>>]

\* lengths of the keys: short, the 32 characters of a service key, and those
\* around the 40 characters whose base64 decoding has 28 bytes or more
KeyLens == {1, 32, 36, 39, 40, 44}
Keys ==
    UNION {{Pad(n), <<"-">> \o Pad(n - 1), Pad(n - 1) \o <<"=">>} : n \in KeyLens}
Routes == {"save", "set", "env"}

InitKey ==
    /\ PipeIdle /\ SanIdle /\ PathIdle /\ ConcIdle /\ ApiIdle
    /\ keyPc = "in"
    /\ apiKey \in Keys
    /\ route \in Routes
    /\ viperKey = Plain(<<>>)
    /\ gotKey = <<>>

\* what SaveAPIKey and `config set api_key` put into the configuration
StoredValue(k, ok) ==
    LET e == Encrypt(k, ok) IN IF e.err THEN Plain(k) ELSE e.val

\* SaveAPIKey(apiKey)
SaveAPIKey(ok) ==
    /\ keyPc = "in" /\ route = "save"
    /\ viperKey' = StoredValue(apiKey, ok)
    /\ keyPc' = "stored"
    /\ UNCHANGED <<pipeVars, sanVars, pathVars, concVars, apiVars, apiKey, route, gotKey>>

\* configSetCmd.Run with key api_key
configSetCmdRun(ok) ==
    /\ keyPc = "in" /\ route = "set"
    /\ viperKey' = StoredValue(apiKey, ok)
    /\ keyPc' = "stored"
    /\ UNCHANGED <<pipeVars, sanVars, pathVars, concVars, apiVars, apiKey, route, gotKey>>

\* InitConfig: viper.Set("assemblyai.api_key", os.Getenv("ASSEMBLYAI_API_KEY"))
InitConfig ==
    /\ keyPc = "in" /\ route = "env"
    /\ viperKey' = Plain(apiKey)
    /\ keyPc' = "stored"
    /\ UNCHANGED <<pipeVars, sanVars, pathVars, concVars, apiVars, apiKey, route, gotKey>>

\* GetAPIKeyNoExit()
GetAPIKeyNoExit ==
    /\ keyPc = "stored"
    /\ gotKey' = IF viperKey = Plain(<<>>) THEN <<>>
                 ELSE IF IsEncrypted(viperKey)
                      THEN IF Decrypt(viperKey).err THEN <<>> ELSE Decrypt(viperKey).text
                      ELSE viperKey.text
    /\ keyPc' = "got"
    /\ UNCHANGED <<pipeVars, sanVars, pathVars, concVars, apiVars, apiKey, route, viperKey>>

NextKey ==
    \/ \E ok \in BOOLEAN : SaveAPIKey(ok)
    \/ \E ok \in BOOLEAN : configSetCmdRun(ok)
    \/ InitConfig
    \/ GetAPIKeyNoExit

SpecKey == InitKey /\ [][NextKey]_vars

(***************************************************************************)
(* Properties                                                              *)
(***************************************************************************)
RunEnded == pc \in {"returned", "exited"}

\* C1: whenever the run has returned or the process has exited, every
\* temporary directory and temporary audio file the run created is gone.
C1_TempsRemoved == RunEnded => temps = {}

\* C2: polling never issues more than maxAttempts fetches, and the poll
\* timeout is reported after exactly maxAttempts fetches.
C2_PollBound ==
    /\ fetches <= maxAttempts
    /\ result = "timeout" => fetches = maxAttempts

StageFailures == {"notfound", "mktemp", "download", "convert", "upload", "submit",
                  "pollfetch", "timeout", "joberror"}

\* C3: the destination file is written only after the job was observed
\* completed; a run that returned a stage failure has not created or
\* modified the destination file, and a failed upload or submit makes the
\* run return an error.
C3_AllOrNothing ==
    /\ writes > 0 => lastResp.status = "completed"
    /\ (pc = "returned" /\ result \in StageFailures) => (writes = 0 /\ outFile = outFile0)
    /\ (uploadRes = "fail" \/ submitRes = "fail") => (pc = "returned" /\ result \in StageFailures)
    /\ result = "ok" => (writes = 1 /\ outFile = lastResp.text)

C3_Witness ==
    /\ pc = "returned" /\ result = "joberror"
    /\ outFile0 # NoFile /\ outFile = outFile0 /\ writes = 0

\* C4: sanitizing the sanitizer's result changes nothing.
C4_Idempotent == sanPc = "twice" => sanOut2 = sanOut1

Separators == InvalidChars \cup {" ", "_", "-"}

\* C5: the sanitizer's result contains no invalid character, has at most
\* maxLength characters and is not empty; an input made only of characters
\* that are replaced and trimmed away yields "transcript".
C5_SanitizerTotal ==
    sanPc \in {"once", "twice"} =>
        /\ \A i \in 1..Len(sanOut1) : sanOut1[i] \notin InvalidChars
        /\ Len(sanOut1) <= maxLength
        /\ sanOut1 # <<>>
        /\ (\A i \in 1..Len(sanIn) : sanIn[i] \in Separators) => sanOut1 = Transcript

C5_Witness ==
    /\ sanPc = "once"
    /\ Len(sanIn) > maxLength
    /\ \E i \in 1..Len(sanIn) : sanIn[i] \in InvalidChars
    /\ Len(sanOut1) = maxLength

\* C6: submit is issued only after a successful upload and fetches only after
\* a successful submit; a failed upload returns its error with no submit and
\* no fetch issued, a failed submit returns its error with no fetch issued.
C6_ProtocolOrder ==
    /\ submits > 0 => uploadRes = "ok"
    /\ fetches > 0 => (uploadRes = "ok" /\ submitRes = "ok")
    /\ uploadRes = "fail" => (pc = "returned" /\ result = "upload" /\ submits = 0 /\ fetches = 0)
    /\ submitRes = "fail" => (pc = "returned" /\ result = "submit" /\ fetches = 0)

C6_Witness == pc = "returned" /\ result = "submit" /\ uploads = 1 /\ submits = 1 /\ fetches = 0

TranscribeReturnedText == pc = "save" \/ (pc = "returned" /\ result \in {"ok", "save"})

\* C7: transcribe returns the job's text with no error exactly when polling
\* observed status completed; when it observed status error the run returns
\* the job error carrying the service's message and no text.
C7_TranscribeOutcome ==
    /\ TranscribeReturnedText <=> lastResp.status = "completed"
    /\ TranscribeReturnedText => transcript = lastResp.text
    /\ lastResp.status = "error" =>
          /\ pc = "returned" /\ result = "joberror"
          /\ errMsg = lastResp.error
          /\ transcript = ""

C7_Witness ==
    /\ pc = "returned" /\ result = "joberror" /\ errMsg = "bad audio"
    /\ fetches = 1 /\ lastResp.text # ""

\* C8: after a fetch reported completed or error no further fetch is issued,
\* so at most one terminal status is observed and it is the last one.
C8_NoFetchAfterTerminal ==
    /\ [](terminals <= 1 /\ (terminals = 1 => lastResp.status \in {"completed", "error"}))
    /\ [][lastResp.status \in {"completed", "error"} => fetches' = fetches]_vars

C8_Witness == fetches = 1 /\ lastResp.status = "completed" /\ terminals = 1

\* C9: in Client.pollTranscription a fetch that reports an unrecognized status
\* (the empty string included) counts as one attempt and polling goes on; a
\* job that only reports such statuses ends in the poll timeout after exactly
\* maxAttempts fetches.
C9_UnrecognizedCounts ==
    (impl = "pkg" /\ onlyUnrec /\ fetches > 0) =>
        /\ attempts = fetches
        /\ fetches <= maxAttempts
        /\ \/ pc = "poll"
           \/ pc = "returned" /\ result = "timeout" /\ fetches = maxAttempts

C9_Witness ==
    /\ impl = "pkg" /\ onlyUnrec
    /\ pc = "returned" /\ result = "timeout" /\ fetches = maxAttempts

\* C10 as stated: each of download, conversion, upload and submit is
\* attempted at most once per run.
C10_NoRetry == dlAttempts <= 1 /\ convAttempts <= 1 /\ uploads <= 1 /\ submits <= 1

FallbackPcs == {"download_fallback", "root_download_fallback"}

\* C10 amended: conversion, upload and submit are attempted at most once and
\* a failure of one of them ends the run; download is attempted at most
\* twice, the second time only as the fallback after the first attempt did
\* not deliver, and nothing follows a failed fallback.
C10_OnlyDownloadFallback ==
    /\ [](/\ dlAttempts <= 2 /\ convAttempts <= 1 /\ uploads <= 1 /\ submits <= 1
          /\ result \in {"download", "convert", "upload", "submit"} => pc = "returned")
    /\ [][(dlAttempts' > dlAttempts /\ dlAttempts >= 1) => pc \in FallbackPcs]_vars
    /\ [][(result \in {"download", "convert", "upload", "submit"})
             => (UNCHANGED <<dlAttempts, convAttempts, uploads, submits>>)]_vars

C10_Witness ==
    /\ pc = "returned" /\ result = "download" /\ dlAttempts = 2 /\ uploads = 0

\* the stage named by the wrapper around a returned error: "failed to download
\* YouTube audio", "audio file not found" (acquisition), "audio conversion
\* failed" (normalization), "failed to transcribe audio" / "transcription
\* failed" (transcription), "failed to save transcript" (write); "failed to
\* create temp directory" belongs to the stage the directory is made for
StageNamed(r) ==
    CASE r \in {"download", "notfound"} -> "acquisition"
      [] r = "mktemp" -> IF kind = "local" THEN "normalization" ELSE "acquisition"
      [] r = "convert" -> "normalization"
      [] r \in {"upload", "submit", "pollfetch", "timeout", "joberror"} -> "transcription"
      [] r = "save" -> "write"
      [] OTHER -> "none"

\* position of stage s in StageOrder
StageIndex(s) == CHOOSE i \in 1..Len(StageOrder) : StageOrder[i] = s

\* C11: stages are entered in the order acquisition, normalization,
\* transcription, write; once a step of stage k has failed the run has
\* returned one error whose wrapper names stage k, stage k is the last stage
\* entered, and a run that succeeded ended in the write stage with no failure.
C11_StageOrder ==
    /\ \A i, j \in 1..Len(stagesRun) :
          i < j => StageIndex(stagesRun[i]) < StageIndex(stagesRun[j])
    /\ failedStage # "none" =>
          /\ pc = "returned"
          /\ result \in StageFailures \cup {"save"}
          /\ StageNamed(result) = failedStage
          /\ stagesRun[Len(stagesRun)] = failedStage
    /\ (pc = "returned" /\ result \in StageFailures \cup {"save"}) => failedStage # "none"
    /\ result = "ok" => (failedStage = "none" /\ stagesRun[Len(stagesRun)] = "write")
    /\ (failedStage \in {"acquisition", "normalization"}) => (uploads = 0 /\ writes = 0)
    /\ failedStage = "transcription" => writes = 0

C11_Witness ==
    /\ pc = "returned" /\ result = "convert" /\ convAttempts = 1
    /\ stagesRun = <<"acquisition", "normalization">>
    /\ failedStage = "normalization" /\ uploads = 0

\* a 2xx status code
IsSuccessStatus(code) == code >= 200 /\ code <= 299

\* C12: when the upload (the submit) request got an HTTP response, the step
\* fails with its status error exactly when the status is not 2xx; every 2xx
\* response whose body decodes is a success of the step.
C12_Non2xxFails ==
    /\ (uploads = 1 /\ ~uploadResp.err) =>
          /\ (result = "upload" /\ errMsg = "non200") <=> ~IsSuccessStatus(uploadResp.code)
          /\ (IsSuccessStatus(uploadResp.code) /\ uploadResp.decodes) => uploadRes = "ok"
    /\ (submits = 1 /\ ~submitResp.err) =>
          /\ (result = "submit" /\ errMsg = "non200") <=> ~IsSuccessStatus(submitResp.code)
          /\ (IsSuccessStatus(submitResp.code) /\ submitResp.decodes) => submitRes = "ok"

\* positions inside Client.TranscribeAudio / the legacy transcribeAudio
InTranscribe == pc \in {"upload", "submit", "poll"}

\* C13: every call to transcribe eventually returns, whatever statuses the
\* service reports.
C13_TranscribeReturns == InTranscribe ~> ~InTranscribe

\* C14: two runs on the same source on the same day with no output path
\* given choose the same destination path, whatever the title lookups return.
C14_Deterministic ==
    (pathPc = "two" /\ outputPath = <<>>) => finalOutputPath2 = finalOutputPath1

\* C15: a run that succeeded leaves the destination file holding exactly the
\* text of that run, whether or not a file was there before; after two runs
\* that succeeded the file holds the second run's text.
C15_Overwrite ==
    (pc = "returned" /\ result = "ok") =>
        /\ outFile = lastResp.text
        /\ writes = 1

C15_Witness ==
    /\ runs = 2 /\ pc = "returned" /\ result = "ok"
    /\ outFile0 = "hello world" /\ lastResp.text = "" /\ outFile = ""

\* strings.HasPrefix / strings.HasSuffix
HasPrefix(t, pre) == Len(t) >= Len(pre) /\ SubSeq(t, 1, Len(pre)) = pre
HasSuffix(t, suf) == Len(t) >= Len(suf) /\ SubSeq(t, Len(t) - Len(suf) + 1, Len(t)) = suf

Saved == {"one", "two"}

NameOf(path) == SubSeq(path, Len(DefaultPath) + 2, Len(path))

\* the title lookup of the first run was made and returned a title
TitleFound == titleLookup /\ meta1 # NoTitle

RawLabel ==
    IF titleLookup
    THEN IF meta1 # NoTitle THEN meta1
         ELSE IF form \in {"v", "short"} THEN vid ELSE <<>>
    ELSE IF form \in {"v", "short"} THEN YoutubeDash \o vid ELSE YoutubeVideo

LastDot(name) ==
    LET dots == {i \in 1..Len(name) : name[i] = "."}
    IN  IF dots = {} THEN 0 ELSE CHOOSE i \in dots : \A j \in dots : j <= i

\* name without its extension, the extension being what starts at the last dot
StripExt(name) == IF LastDot(name) = 0 THEN name ELSE SubSeq(name, 1, LastDot(name) - 1)

Occurs(t, sub) == \E i \in 1..(Len(t) + 1), j \in 0..Len(t) : SubSeq(t, i, j) = sub

\* C19: every source is classified, as YouTube exactly when the string
\* contains youtube.com or youtu.be and as a local path otherwise, and the
\* classification changes nothing else.
C19_Classification ==
    /\ [](pathPc \in {"classified", "one", "two"} =>
            /\ sourceType \in {"youtube", "local"}
            /\ sourceType = "youtube" <=>
                  (Occurs(source, <<"y", "o", "u", "t", "u", "b", "e", ".", "c", "o", "m">>) \/ Occurs(source, <<"y", "o", "u", "t", "u", ".", "b", "e">>)))
    /\ [][pathPc = "in" =>
            UNCHANGED <<pipeVars, sanVars, harnessVars, source, outputPath, timestamp, dirExists,
                        finalOutputPath1, finalOutputPath2>>]_vars

C19_Witness ==
    /\ pathPc = "classified" /\ sourceType = "youtube"
    /\ source = <<"a", "/", "y", "o", "u", "t", "u", ".", "b", "e", ".", "m", "p", "3">>

\* C20: a local run on a path that does not exist returns the not-found
\* error without having made a temporary directory, run the converter or
\* sent a request; conversion and upload are attempted only on a path os.Stat
\* found to exist.
C20_NotFoundEarly ==
    /\ (kind = "local" /\ ~srcExists /\ pc = "returned") =>
          /\ result = "notfound"
          /\ stagesRun = <<"acquisition">>
          /\ convAttempts = 0 /\ uploads = 0 /\ submits = 0 /\ fetches = 0
    /\ (kind = "local" /\ (convAttempts > 0 \/ uploads > 0)) => (srcExists /\ statErr = "nil")

C22_DeadlineAborts ==
    kind = "youtube" =>
      /\ pc # "blocked"
      /\ "download" \in hung =>
            /\ pc = "returned" /\ result = "download"
            /\ failedStage = "acquisition"
            /\ temps = {}

\* process p is between the creation of its intermediate audio and its return
Working(p) == cPc[p] \in {"convert", "transcribe"}

\* C23: two processes that run at the same time never have the same
\* temporary directory or the same intermediate audio path, and the audio a
\* process is transcribing exists: no other process has removed it.
C23_TempsNotShared ==
    /\ \A p, q \in Procs :
          (p # q /\ Working(p) /\ Working(q)) =>
              /\ (cAudio[p] # <<>> => cAudio[p] # cAudio[q])
              /\ (cTempDir[p] # <<>> => cTempDir[p] # cTempDir[q])
    /\ \A p \in Procs : cPc[p] = "transcribe" => cAudio[p] \in fs

\* C24: when the process has ended, its exit status is 0 if the run produced
\* the transcript and is not 0 if the pipeline returned an error or the
\* process was ended by os.Exit(1), however the pipeline was started.
C24_ExitStatus ==
    pc = "ended" =>
      /\ result = "ok" => exitCode = 0
      /\ result \in StageFailures \cup {"save", "exit"} => exitCode # 0

\* C25: a run writes the destination at most once, a run that succeeded has
\* written it exactly once, and a write happens only once the job has been
\* observed completed, with exactly the text of the completed job.
C25_WrittenOnce ==
    /\ writes <= 1
    /\ (pc = "returned" /\ result = "ok") => writes = 1
    /\ writes = 1 =>
          /\ lastResp.status = "completed" /\ terminals = 1
          /\ transcript = lastResp.text
          /\ outFile = transcript

C25_Witness ==
    /\ pc = "returned" /\ result = "ok" /\ writes = 1
    /\ outFile0 = "old transcript" /\ outFile = "hello world" /\ fetches > 1

\* the last status fetch failed: transport error, a status other than 200, or
\* a body that does not decode
FetchFailed == pollResp \notin {"none", "ok"}

\* C26: once a status fetch has failed, pollTranscription has returned a
\* polling error that says how the fetch failed, which is neither the poll
\* timeout nor a job error, and no further fetch is made although attempts
\* remain.
C26_FetchFailureReturns ==
    /\ [](FetchFailed =>
            /\ pc = "returned" /\ result = "pollfetch"
            /\ errMsg = pollResp
            /\ errMsg \in {"neterr", "non200", "baddecode"}
            /\ failedStage = "transcription" /\ writes = 0)
    /\ [][FetchFailed => fetches' = fetches]_vars

C26_Witness ==
    /\ FetchFailed /\ pollResp = "baddecode"
    /\ fetches = 3 /\ attempts = 2 /\ result = "pollfetch"

\* C27: the audio_url a submit request carries is the handle this call's
\* upload returned and the id a status fetch asks for is the id this call's
\* submit returned; neither of them is empty.
C27_HandlesPassedOn ==
    /\ submits > 0 => (sentURL = uploadURL /\ uploadRes = "ok" /\ sentURL # "")
    /\ fetches > 0 => (fetchedID = jobID /\ submitRes = "ok" /\ fetchedID # "")

\* the default path saveTranscript resolves for the source of the last call
ResolvedDefault ==
    LET title == IF sourceType = "youtube" THEN youtubeTitle(source) ELSE localTitle(source)
        clean == sanitizeFilename(title)
    IN  Join(DefaultPath, FileName(IF clean = <<>> THEN Transcript ELSE clean, timestamp))

\* C28: after any sequence of SetOutputPath calls and earlier runs, a
\* Process call writes to its outputPath argument when that is not empty and
\* to the resolved default path when it is empty.
C28_OwnArguments ==
    apiPc = "called" => dest = IF argOut # <<>> THEN argOut ELSE ResolvedDefault

\* C29: what sanitizeFilename returns neither starts nor ends with a hyphen
\* and has no two hyphens in a row, also when the input was cut at maxLength.
C29_HyphensClean ==
    sanPc \in {"once", "twice"} =>
        /\ sanOut1[1] # "-"
        /\ sanOut1[Len(sanOut1)] # "-"
        /\ \A i \in 1..(Len(sanOut1) - 1) : ~(sanOut1[i] = "-" /\ sanOut1[i + 1] = "-")

\* C30: whichever way a non-empty key was stored or supplied,
\* GetAPIKeyNoExit returns exactly that key.
C30_KeyRoundTrip == keyPc = "got" => gotKey = apiKey
====
